---- MODULE Spec2Model ----
(***************************************************************************)
(* A model of src/client.py: the MCP client that bridges a Gemini chat     *)
(* with a remote tool server.  main creates the client, connects, runs     *)
(* chat_loop and always runs cleanup; chat_loop reads lines and runs       *)
(* process_query; process_query lists the tools, builds declarations and   *)
(* description lines, sends the prompt, walks the Parts of the answer and  *)
(* dispatches tool calls.                                                  *)
(*                                                                         *)
(* Strings are sequences of tokens (a token is a piece of text that is     *)
(* never split); f-strings and "\n".join are concatenations of tokens.     *)
(* Script paths and input lines are sequences of single characters.        *)
(***************************************************************************)
EXTENDS Integers, Sequences, FiniteSets, TLC

VARIABLES
    argv,              \* sys.argv
    mainPc,            \* position in main / connect_to_server
    exit_stack,        \* self.exit_stack: the contexts entered, oldest first
    held,              \* resources currently open
    acquired,          \* log: resources in the order they were opened
    released,          \* log: resources in the order they were closed
    spawned,           \* the interpreter stdio_client was asked to spawn, or "none"
    requests,          \* log: requests connect_to_server sent to the tool server
    loopPc,            \* position in chat_loop
    line,              \* the raw line input() returned last
    nQueries,          \* number of process_query calls started
    failed,            \* TRUE when the query read last ended with an error
    pqPc,              \* position in process_query
    delivered,         \* response.tools as the server delivered them
    tools,             \* response.tools as they are after the for loop
    available_tools,   \* function declarations built
    tool_descriptions, \* description lines built
    history,           \* the chat context: messages sent and turns received
    parts,             \* response.parts of the initial turn
    idx,               \* index of the Part the for loop is at
    follow_up,         \* follow_up_response.parts of the latest follow-up turn
    final_text,        \* the transcript lines
    outstanding,       \* the remote request the query is waiting for
    nListTools,        \* list-tools requests sent by the current query
    nCallTool,         \* call-tool requests sent by the current query
    nToolReturned,     \* call-tool requests of the current query that returned
    nLLM,              \* LLM messages sent by the current query
    lastError,         \* message of the exception being handled / raised
    result,            \* value process_query returned
    stdout             \* what chat_loop printed last

vars == << argv, mainPc, exit_stack, held, acquired, released, spawned,
           requests, loopPc, line, nQueries, failed, pqPc, delivered, tools,
           available_tools, tool_descriptions, history, parts, idx,
           follow_up, final_text, outstanding, nListTools, nCallTool,
           nToolReturned, nLLM, lastError, result, stdout >>

(***************************************************************************)
(* Bounds.                                                                 *)
(***************************************************************************)
MaxParts == 2      \* longest initial turn
MaxQueries == 2    \* process_query calls per run

(***************************************************************************)
(* Strings.                                                                *)
(***************************************************************************)
\* "\n".join(lines)
RECURSIVE Join(_)
Join(lines) ==
    IF lines = << >> THEN << >>
    ELSE IF Len(lines) = 1 THEN lines[1]
    ELSE lines[1] \o << "\n" >> \o Join(Tail(lines))

\* s.endswith(suffix)
endswith(s, suffix) ==
    /\ Len(s) >= Len(suffix)
    /\ SubSeq(s, Len(s) - Len(suffix) + 1, Len(s)) = suffix

Whitespace == { " ", "\t", "\n" }

\* s.strip()
RECURSIVE lstrip(_)
lstrip(s) ==
    IF s # << >> /\ Head(s) \in Whitespace THEN lstrip(Tail(s)) ELSE s

RECURSIVE rstrip(_)
rstrip(s) ==
    IF s # << >> /\ s[Len(s)] \in Whitespace
    THEN rstrip(SubSeq(s, 1, Len(s) - 1)) ELSE s

strip(s) == rstrip(lstrip(s))

LowerChar(c) ==
    CASE c = "Q" -> "q"
      [] c = "U" -> "u"
      [] c = "I" -> "i"
      [] c = "T" -> "t"
      [] c = "H" -> "h"
      [] OTHER -> c

\* s.lower()
lower(s) == [i \in 1..Len(s) |-> LowerChar(s[i])]

Contains(s, tok) == \E i \in 1..Len(s) : s[i] = tok

(***************************************************************************)
(* Schema values: nested mappings, sequences and scalars.  Every value is  *)
(* a node [kind, items, val]; a mapping keeps its (key, value) pairs in    *)
(* insertion order, a sequence keeps its elements under the key "", a str  *)
(* or another scalar keeps its text in val.                                *)
(***************************************************************************)
KV(k, v) == [key |-> k, value |-> v]
Dict(kvs) == [kind |-> "dict", items |-> kvs, val |-> ""]
List(vs) == [kind |-> "list", items |-> [i \in 1..Len(vs) |-> KV("", vs[i])], val |-> ""]
Str(s) == [kind |-> "str", items |-> << >>, val |-> s]
Scalar(s) == [kind |-> "scalar", items |-> << >>, val |-> s]

\* key in obj
HasKey(obj, k) == \E i \in 1..Len(obj.items) : obj.items[i].key = k

\* obj[k]
Get(obj, k) ==
    obj.items[CHOOSE i \in 1..Len(obj.items) : obj.items[i].key = k].value

\* del obj[k]
DelKey(obj, k) ==
    [obj EXCEPT !.items = SelectSeq(obj.items, LAMBDA kv : kv.key # k)]

\* a clean_schema that returns a sequence as it is
RECURSIVE clean_schema_skip_lists(_)
clean_schema_skip_lists(obj) ==
    IF obj.kind = "dict"
    THEN LET d == IF HasKey(obj, "title") THEN DelKey(obj, "title") ELSE obj
         IN  [d EXCEPT !.items =
                 [i \in 1..Len(d.items) |->
                     KV(d.items[i].key, clean_schema_skip_lists(d.items[i].value))]]
    ELSE obj

\* a clean_schema that goes into the values only of a mapping without "title"
RECURSIVE clean_schema_elif(_)
clean_schema_elif(obj) ==
    IF obj.kind = "dict"
    THEN IF HasKey(obj, "title") THEN DelKey(obj, "title")
         ELSE [obj EXCEPT !.items =
                  [i \in 1..Len(obj.items) |->
                      KV(obj.items[i].key, clean_schema_elif(obj.items[i].value))]]
    ELSE IF obj.kind = "list"
    THEN [obj EXCEPT !.items =
             [i \in 1..Len(obj.items) |->
                 KV("", clean_schema_elif(obj.items[i].value))]]
    ELSE obj

\* The value clean_schema(obj) returns.
RECURSIVE clean_schema(_)
clean_schema(obj) ==
    IF obj.kind = "dict"
    THEN LET d == IF HasKey(obj, "title") THEN DelKey(obj, "title") ELSE obj
         IN  [d EXCEPT !.items =
                 [i \in 1..Len(d.items) |->
                     KV(d.items[i].key, clean_schema(d.items[i].value))]]
    ELSE IF obj.kind = "list"
    THEN [obj EXCEPT !.items =
             [i \in 1..Len(obj.items) |->
                 KV("", clean_schema(obj.items[i].value))]]
    ELSE obj

\* What the object passed to clean_schema holds after the call: a mapping is
\* edited in place (the key deleted, every value reassigned), a sequence is
\* left as a container while the objects in it are edited in place.
RECURSIVE schema_after_clean(_)
schema_after_clean(obj) ==
    IF obj.kind = "dict"
    THEN LET d == IF HasKey(obj, "title") THEN DelKey(obj, "title") ELSE obj
         IN  [d EXCEPT !.items =
                 [i \in 1..Len(d.items) |->
                     KV(d.items[i].key, clean_schema(d.items[i].value))]]
    ELSE IF obj.kind = "list"
    THEN [obj EXCEPT !.items =
             [i \in 1..Len(obj.items) |->
                 KV("", schema_after_clean(obj.items[i].value))]]
    ELSE obj

(***************************************************************************)
(* The tool catalogs the server may deliver.                               *)
(***************************************************************************)
SchemaWeather ==
    Dict(<< KV("title", Str("getWeatherArguments")),
            KV("type", Str("object")),
            KV("properties",
               Dict(<< KV("lat", Dict(<< KV("title", Str("Lat")),
                                         KV("description", Str("latitude")) >>)),
                       KV("lon", Dict(<< KV("title", Str("Lon")),
                                         KV("type", Str("number")) >>)) >>)) >>)

SchemaAlerts ==
    Dict(<< KV("properties",
               Dict(<< KV("state",
                          Dict(<< KV("anyOf",
                                     List(<< Dict(<< KV("title", Str("Code")),
                                                     KV("type", Str("string")) >>),
                                             List(<< Dict(<< KV("title", Str("Inner")) >>) >>),
                                             Scalar("null") >>)) >>)) >>)),
            KV("required", List(<< Str("state") >>)) >>)

\* a tool one of whose parameters is named "title"
SchemaSearch ==
    Dict(<< KV("properties",
               Dict(<< KV("title", Dict(<< KV("description", Str("title to look for")) >>)),
                       KV("year", Dict(<< KV("type", Str("integer")) >>)) >>)) >>)

\* a parameter whose schema is the boolean schema true
SchemaAny == Dict(<< KV("properties", Dict(<< KV("x", Scalar("true")) >>)) >>)

SchemaEmpty == Dict(<< >>)

\* a schema that is a sequence, and one that is a scalar
SchemaList ==
    List(<< Dict(<< KV("title", Str("First")), KV("type", Str("string")) >>),
            Str("title"),
            List(<< Dict(<< KV("title", Str("Deep")) >>) >>) >>)
SchemaNull == Scalar("null")

TextGood == "{\"title\": \"T\", \"properties\": {\"lat\": {\"title\": \"Lat\"}}}"
TextBad == "{\"properties\": "

\* json.loads raises on text that is not a JSON document
JsonValid(s) == s \in { TextGood }

\* json.loads(s): the document the text encodes
json_loads(s) ==
    CASE s = TextGood ->
        Dict(<< KV("title", Str("T")),
                KV("properties",
                   Dict(<< KV("lat", Dict(<< KV("title", Str("Lat")) >>)) >>)) >>)

Tool(n, d, s) == [name |-> n, description |-> d, inputSchema |-> s]

ToolLists ==
    { << >>,
      << Tool("getWeather", "weather at a point", SchemaWeather),
         Tool("getAlerts", "alerts of a state", SchemaAlerts),
         Tool("ping", "no arguments", SchemaEmpty),
         Tool("raw", "sequence schema", SchemaList),
         Tool("nil", "no schema", SchemaNull) >>,
      << Tool("search", "search by title", SchemaSearch),
         Tool("getWeather", "weather at a point", Str(TextGood)) >>,
      << Tool("getWeather", "weather at a point", SchemaWeather),
         Tool("getAlerts", "alerts of a state", Str(TextBad)) >>,
      << Tool("getAlerts", "alerts of a state", SchemaAlerts),
         Tool("any", "anything", SchemaAny),
         Tool("getWeather", "weather at a point", SchemaWeather) >> }

(***************************************************************************)
(* The for loop over response.tools (lines 62-94).                         *)
(***************************************************************************)
\* line 64 raises (json.loads on malformed text)
ParseFails(tool) ==
    tool.inputSchema.kind = "str" /\ ~JsonValid(tool.inputSchema.val)

\* line 64: the object bound to schema
LoadSchema(tool) ==
    IF tool.inputSchema.kind = "str"
    THEN json_loads(tool.inputSchema.val)
    ELSE tool.inputSchema

\* lines 91-92: the parameters the description loop visits, read from schema
\* after clean_schema has run on it
VisitedParams(tool) ==
    LET schema == schema_after_clean(LoadSchema(tool))
    IN  IF schema.kind = "dict" /\ HasKey(schema, "properties")
        THEN Get(schema, "properties").items
        ELSE << >>

\* line 93 raises (param_details has no .get)
DescribeFails(tool) ==
    \E i \in 1..Len(VisitedParams(tool)) : VisitedParams(tool)[i].value.kind # "dict"

\* lines 88-94: the description lines of a tool appended before line 93 raises
LinesBeforeFailure(tool) ==
    LET ps == VisitedParams(tool)
        bad == CHOOSE i \in 1..Len(ps) :
                   ps[i].value.kind # "dict" /\ \A j \in 1..(i - 1) : ps[j].value.kind = "dict"
    IN  << << "- ", tool.name, ": ", tool.description >> >> \o
        [i \in 1..(bad - 1) |->
            << "  - Parameter '", ps[i].key, "': " >> \o
            (IF HasKey(ps[i].value, "description")
             THEN << Get(ps[i].value, "description").val >> ELSE << >>)]

ToolFails(tool) == ParseFails(tool) \/ (~ParseFails(tool) /\ DescribeFails(tool))

\* lines 79-85
Declaration(tool) ==
    [name |-> tool.name, description |-> tool.description,
     parameters |-> clean_schema(LoadSchema(tool))]

\* line 93-94
ParamLine(kv) ==
    << "  - Parameter '", kv.key, "': " >> \o
    (IF HasKey(kv.value, "description")
     THEN << Get(kv.value, "description").val >> ELSE << >>)

\* lines 88-94: the description lines of one tool
DescriptionLines(tool) ==
    << << "- ", tool.name, ": ", tool.description >> >> \o
    [i \in 1..Len(VisitedParams(tool)) |-> ParamLine(VisitedParams(tool)[i])]

\* the object tool.inputSchema after the loop body: a str is left alone (the
\* loop works on the parsed copy), a structure is the object clean_schema edited
ToolAfter(tool) ==
    IF tool.inputSchema.kind = "str" THEN tool
    ELSE [tool EXCEPT !.inputSchema = schema_after_clean(tool.inputSchema)]

\* index of the first tool whose loop body raises, 0 when none does
FirstFailing(ts) ==
    IF \E i \in 1..Len(ts) : ToolFails(ts[i])
    THEN CHOOSE i \in 1..Len(ts) :
            ToolFails(ts[i]) /\ \A j \in 1..(i - 1) : ~ToolFails(ts[j])
    ELSE 0

RECURSIVE AllDescriptionLines(_)
AllDescriptionLines(ts) ==
    IF ts = << >> THEN << >>
    ELSE DescriptionLines(Head(ts)) \o AllDescriptionLines(Tail(ts))

(***************************************************************************)
(* Turns and Parts of the LLM, transcript lines.                           *)
(***************************************************************************)
TextPart(t) == [kind |-> "text", text |-> t, name |-> "", args |-> ""]
FunctionCallPart(n, a) == [kind |-> "function_call", text |-> << >>, name |-> n, args |-> a]

Parts ==
    { TextPart(<< "Let me check" >>),
      TextPart(<< >>),
      FunctionCallPart("getWeather", "{lat: 25.7617, lon: -80.1918}"),
      FunctionCallPart("getAlerts", "{state: FL}") }

TurnsUpTo(n) == UNION { [1..k -> Parts] : k \in 0..n }

\* the follow-up turns the LLM may answer with
FollowUpTurns ==
    { << >>,
      << TextPart(<< "It is 301 K" >>) >>,
      << TextPart(<< >>) >>,
      << FunctionCallPart("getAlerts", "{state: FL}") >>,
      << TextPart(<< "It is 301 K" >>), FunctionCallPart("getAlerts", "{state: FL}") >>,
      << FunctionCallPart("getAlerts", "{state: FL}"), TextPart(<< "It is 301 K" >>) >>,
      << TextPart(<< "It is 301 K" >>), TextPart(<< "and sunny" >>) >> }

Payloads == { "{temp: 301}" }

ListToolsError == "Connection closed"
ParseError == "Expecting value"
AttributeError == "object has no attribute 'get'"
LLMError == "429 quota exceeded"
ToolError == "tool getWeather failed"
ValueError == "Server script must be a .py or .js file"

\* hasattr on an object that answers to every attribute name
hasattr_always(part, attr) == TRUE

\* hasattr(part, 'text') / hasattr(part, 'function_call')
hasattr(part, attr) ==
    \/ attr = "text" /\ part.kind = "text"
    \/ attr = "function_call" /\ part.kind = "function_call"

\* line 144
CallNotice(name, args) == << "[Calling tool ", name, " with args ", args, "]" >>
\* line 148
ResultNotice(payload) == << "[Tool result: ", payload, "]" >>
\* line 151
human_readable(name, payload) ==
    << "The tool ", name, " returned the following result: ", payload >>
\* line 153
SignatureLine == << "this is Ujjwal's weather agent :)" >>
\* line 158
ErrorNotice(e) == << "Error in processing with Gemini: ", e >>
\* line 160: traceback.format_exc()
Trace(e) == << "Traceback (most recent call last):\n", "Exception: ", e, "\n" >>
\* the joined (empty) transcript in place of the fixed text
NoResponse_joined == << >>

\* line 130
NoResponse == << "No response from Gemini" >>

\* lines 97-110
enhanced_query(query, descriptions) ==
    << "\nI need you to help me with a weather query: \"" >> \o query \o
    << "\"\n\nWhen using weather tools, ... I have the following tools available:\n" >> \o
    Join(descriptions) \o
    << "\n\nPlease use these tools to answer my query. ...\n" >>

\* lines 132-138: the index of the first Part at or after i that holds a
\* function call, Len(ps) + 1 when there is none
RECURSIVE NextCall(_, _)
NextCall(ps, i) ==
    IF i > Len(ps) THEN i
    ELSE IF hasattr(ps[i], "function_call") THEN i
    ELSE NextCall(ps, i + 1)

\* a text test without the truth test on part.text
TextLines_any(part) ==
    IF part.kind = "text" THEN << part.text >> ELSE << >>

\* lines 134-135: what Part ps[i] appends to final_text
TextLines(part) ==
    IF hasattr(part, "text") /\ part.text # << >> THEN << part.text >> ELSE << >>

\* lines 132-135 for the Parts ps[i..j]
RECURSIVE WalkText(_, _, _)
WalkText(ps, i, j) ==
    IF i > j \/ i > Len(ps) THEN << >>
    ELSE TextLines(ps[i]) \o WalkText(ps, i + 1, j)

\* the two notices appended in the other order
ToolLines_swapped(name, args, payload) ==
    << << "[Tool result: ", payload, "]" >>,
       << "[Calling tool ", name, " with args ", args, "]" >> >>

\* lines 144, 148: what a returned tool call appends
ToolLines(name, args, payload) ==
    << CallNotice(name, args), ResultNotice(payload) >>

\* a follow-up handler that appends the text of every Part of the turn
FollowUpLines_all_texts(turn) ==
    << << "this is Ujjwal's weather agent :)" >> >> \o
    [i \in 1..Len(SelectSeq(turn, LAMBDA q : q.kind = "text")) |->
        SelectSeq(turn, LAMBDA q : q.kind = "text")[i].text]

\* lines 153-155: what a returned follow-up turn appends
FollowUpLines(turn) ==
    << SignatureLine >> \o
    (IF turn # << >> /\ hasattr(turn[1], "text") THEN << turn[1].text >> ELSE << >>)

\* an except clause that swallows the exception
except_clause_silent(ft, e) == ft

\* an except clause that starts the transcript over
except_clause_reset(ft, e) ==
    << << "Error in processing with Gemini: ", e >>,
       << "Traceback (most recent call last):\n", "Exception: ", e, "\n" >> >>

\* lines 157-160: the except clause
except_clause(ft, e) == ft \o << ErrorNotice(e), Trace(e) >>

(***************************************************************************)
(* main, connect_to_server and cleanup.                                    *)
(***************************************************************************)
Prog == << "c", "l", "i", "e", "n", "t", ".", "p", "y" >>

ScriptPaths ==
    { << "s", ".", "p", "y" >>,
      << "s", ".", "j", "s" >>,
      << "s", ".", "t", "x", "t" >>,
      << "s", ".", "p", "y", "c" >>,
      << "p", "y" >>,
      << >> }

ArgvSet == { << Prog >> } \cup { << Prog, p >> : p \in ScriptPaths }

\* an extension check that forgets the dot
ExtensionOk_nodot(path) ==
    endswith(path, << "p", "y" >>) \/ endswith(path, << "j", "s" >>)

\* lines 31-33
ExtensionOk(path) ==
    endswith(path, << ".", "p", "y" >>) \/ endswith(path, << ".", "j", "s" >>)

\* line 36
Command(path) == IF endswith(path, << ".", "p", "y" >>) THEN "python" ELSE "node"

RECURSIVE Reverse(_)
Reverse(sq) == IF sq = << >> THEN << >> ELSE Reverse(Tail(sq)) \o << Head(sq) >>

\* an exit stack that exits its contexts oldest first
aclose_fifo(stack) == stack

\* AsyncExitStack.aclose(): the order in which the entered contexts are exited
aclose(stack) == Reverse(stack)

Range(sq) == { sq[i] : i \in 1..Len(sq) }

QueryLocals ==
    << pqPc, delivered, tools, available_tools, tool_descriptions, history,
       parts, idx, follow_up, final_text, outstanding, nListTools, nCallTool,
       nToolReturned, nLLM, result >>
LoopVars == << loopPc, line, nQueries, failed, stdout >>
ResourceVars == << exit_stack, held, acquired, released >>

Init ==
    /\ argv \in ArgvSet
    /\ mainPc = "start"
    /\ exit_stack = << >>
    /\ held = { }
    /\ acquired = << >>
    /\ released = << >>
    /\ spawned = "none"
    /\ requests = << >>
    /\ loopPc = "not_started"
    /\ line = << >>
    /\ nQueries = 0
    /\ failed = FALSE
    /\ pqPc = "idle"
    /\ delivered = << >>
    /\ tools = << >>
    /\ available_tools = << >>
    /\ tool_descriptions = << >>
    /\ history = << >>
    /\ parts = << >>
    /\ idx = 0
    /\ follow_up = << >>
    /\ final_text = << >>
    /\ outstanding = "none"
    /\ nListTools = 0
    /\ nCallTool = 0
    /\ nToolReturned = 0
    /\ nLLM = 0
    /\ lastError = ""
    /\ result = << >>
    /\ stdout = "none"

\* lines 189-191: no script argument, usage message and exit code 1
MainUsage ==
    /\ mainPc = "start"
    /\ Len(argv) < 2
    /\ mainPc' = "exited"
    /\ stdout' = "usage"
    /\ UNCHANGED << argv, ResourceVars, spawned, requests, loopPc, line,
                    nQueries, failed, QueryLocals, lastError >>

\* lines 193-195: the client is created and connect_to_server is called
MainCreate ==
    /\ mainPc = "start"
    /\ Len(argv) >= 2
    /\ mainPc' = "connect"
    /\ UNCHANGED << argv, ResourceVars, spawned, requests, LoopVars,
                    QueryLocals, lastError >>

\* lines 31-34: the extension check raises; main goes to its finally clause
ConnectReject ==
    /\ mainPc = "connect"
    /\ ~ExtensionOk(argv[2])
    /\ lastError' = ValueError
    /\ mainPc' = "finally"
    /\ UNCHANGED << argv, ResourceVars, spawned, requests, LoopVars, QueryLocals >>

\* lines 31-43: the check passes and stdio_client is entered, which spawns
\* the server with the interpreter chosen
ConnectSpawn ==
    /\ mainPc = "connect"
    /\ ExtensionOk(argv[2])
    /\ spawned' = Command(argv[2])
    /\ mainPc' = "await_transport"
    /\ UNCHANGED << argv, ResourceVars, requests, LoopVars, QueryLocals, lastError >>

\* line 43: entering the transport raises; nothing was pushed on the stack
TransportFails ==
    /\ mainPc = "await_transport"
    /\ lastError' = "spawn failed"
    /\ mainPc' = "finally"
    /\ UNCHANGED << argv, ResourceVars, spawned, requests, LoopVars, QueryLocals >>

\* lines 43-45: the transport is open and pushed; ClientSession is entered
TransportOpens ==
    /\ mainPc = "await_transport"
    /\ exit_stack' = Append(exit_stack, "transport")
    /\ held' = held \cup { "transport" }
    /\ acquired' = Append(acquired, "transport")
    /\ mainPc' = "await_session"
    /\ UNCHANGED << argv, released, spawned, requests, LoopVars, QueryLocals, lastError >>

\* line 45: entering the session raises
SessionFails ==
    /\ mainPc = "await_session"
    /\ lastError' = "session failed"
    /\ mainPc' = "finally"
    /\ UNCHANGED << argv, ResourceVars, spawned, requests, LoopVars, QueryLocals >>

\* lines 45-47: the session is open and pushed; initialize is sent
SessionOpens ==
    /\ mainPc = "await_session"
    /\ exit_stack' = Append(exit_stack, "session")
    /\ held' = held \cup { "session" }
    /\ acquired' = Append(acquired, "session")
    /\ requests' = Append(requests, "initialize")
    /\ mainPc' = "await_initialize"
    /\ UNCHANGED << argv, released, spawned, LoopVars, QueryLocals, lastError >>

\* a connect that goes on to chat_loop after the handshake raised
InitializeFails_continue ==
    /\ mainPc = "await_initialize"
    /\ lastError' = "initialize failed"
    /\ mainPc' = "chat"
    /\ loopPc' = "prompt"
    /\ UNCHANGED << argv, ResourceVars, spawned, requests, line, nQueries,
                    failed, stdout, QueryLocals >>

\* line 47: the handshake raises
InitializeFails ==
    /\ mainPc = "await_initialize"
    /\ lastError' = "initialize failed"
    /\ mainPc' = "finally"
    /\ UNCHANGED << argv, ResourceVars, spawned, requests, LoopVars, QueryLocals >>

\* lines 47-50: the handshake returns; list_tools is sent
InitializeReturns ==
    /\ mainPc = "await_initialize"
    /\ requests' = Append(requests, "list_tools")
    /\ mainPc' = "await_tools"
    /\ UNCHANGED << argv, ResourceVars, spawned, LoopVars, QueryLocals, lastError >>

\* line 50: list_tools raises
ConnectListFails ==
    /\ mainPc = "await_tools"
    /\ lastError' = ListToolsError
    /\ mainPc' = "finally"
    /\ UNCHANGED << argv, ResourceVars, spawned, requests, LoopVars, QueryLocals >>

\* lines 50-52, 196, 166-169: the tools are printed, connect_to_server
\* returns and chat_loop starts
ConnectReturns ==
    /\ mainPc = "await_tools"
    /\ mainPc' = "chat"
    /\ loopPc' = "prompt"
    /\ stdout' = "banner"
    /\ UNCHANGED << argv, ResourceVars, spawned, requests, line, nQueries,
                    failed, QueryLocals, lastError >>

\* lines 197-198, 184-186: the finally clause of main runs cleanup
Cleanup ==
    /\ mainPc = "finally"
    /\ released' = released \o aclose(exit_stack)
    /\ held' = held \ Range(aclose(exit_stack))
    /\ exit_stack' = << >>
    /\ mainPc' = "done"
    /\ UNCHANGED << argv, acquired, spawned, requests, LoopVars, QueryLocals, lastError >>

(***************************************************************************)
(* chat_loop.                                                              *)
(***************************************************************************)
Quit == << "q", "u", "i", "t" >>

QuitLines ==
    { Quit,
      << " ", "Q", "u", "I", "t", " " >>,
      << "Q", "U", "I", "T", "\n" >> }

QueryLines ==
    { << "h", "i", " " >>,
      << " ", "q", " ", "u", "i", "t" >> }

Lines == QuitLines \cup QueryLines

\* a quit check that compares without lower()
IsQuit_exact(l) == strip(l) = Quit

\* lines 171-173: query = input().strip(); query.lower() == 'quit'
IsQuit(l) == lower(strip(l)) = Quit

\* an except clause that leaves the loop
after_except_stop == "stopped"

\* lines 179-182 and the while True of line 169: where the loop is after its
\* except clause has run
after_except == "prompt"

\* the locals of a process_query call that has ended; the messages of its
\* chat, the tools it received and the catalog it built stay as they are
\* until the next call makes new ones (lines 56-59, 120)
QueryReset ==
    /\ pqPc' = "idle"
    /\ parts' = << >>
    /\ idx' = 0
    /\ follow_up' = << >>
    /\ final_text' = << >>
    /\ UNCHANGED << delivered, tools, available_tools, tool_descriptions, history >>
    /\ outstanding' = "none"
    /\ nListTools' = 0
    /\ nCallTool' = 0
    /\ nToolReturned' = 0
    /\ nLLM' = 0
    /\ result' = << >>

\* lines 171-174: the line read is the quit command; break, chat_loop returns
ReadQuit ==
    /\ mainPc = "chat" /\ loopPc = "prompt"
    /\ \E l \in Lines :
        /\ IsQuit(l)
        /\ line' = l
    /\ loopPc' = "returned"
    /\ mainPc' = "finally"
    /\ UNCHANGED << argv, ResourceVars, spawned, requests, nQueries, failed,
                    stdout, QueryLocals, lastError >>

\* lines 171-176 and 56: another line is read; process_query is called and
\* sends its list-tools request
ReadQuery ==
    /\ mainPc = "chat" /\ loopPc = "prompt"
    /\ nQueries < MaxQueries
    /\ \E l \in Lines :
        /\ ~IsQuit(l)
        /\ line' = l
    /\ loopPc' = "in_query"
    /\ nQueries' = nQueries + 1
    /\ pqPc' = "await_list"
    /\ outstanding' = "list_tools"
    /\ nListTools' = 1
    /\ failed' = FALSE
    /\ UNCHANGED << argv, mainPc, ResourceVars, spawned, requests,
                    stdout, delivered, tools, available_tools, tool_descriptions,
                    history, parts, idx, follow_up, final_text, nCallTool, nToolReturned,
                    nLLM, result, lastError >>

\* lines 171, 179-182: input() raises an Exception (end of input); the except
\* clause prints it and the loop goes on
ReadError ==
    /\ mainPc = "chat" /\ loopPc = "prompt"
    /\ stdout' = "error"
    /\ loopPc' = after_except
    /\ UNCHANGED << argv, mainPc, ResourceVars, spawned, requests, line,
                    nQueries, failed, QueryLocals, lastError >>

\* line 171: input() is interrupted (KeyboardInterrupt is no Exception, so
\* line 179 does not catch it); chat_loop is left for the finally of main
ReadInterrupt ==
    /\ mainPc = "chat" /\ loopPc = "prompt"
    /\ loopPc' = "interrupted"
    /\ mainPc' = "finally"
    /\ lastError' = "KeyboardInterrupt"
    /\ UNCHANGED << argv, ResourceVars, spawned, requests, line, nQueries,
                    failed, stdout, QueryLocals >>

\* lines 176-177: process_query returned; the transcript is printed
ChatPrint ==
    /\ mainPc = "chat" /\ loopPc = "in_query"
    /\ pqPc = "returned"
    /\ stdout' = "response"
    /\ loopPc' = "prompt"
    /\ lastError' = ""
    /\ QueryReset
    /\ UNCHANGED << argv, mainPc, ResourceVars, spawned, requests, line,
                    nQueries, failed >>

\* lines 176, 179-182: process_query raised; the except clause prints the
\* error and the loop goes on
ChatCatch ==
    /\ mainPc = "chat" /\ loopPc = "in_query"
    /\ pqPc = "raised"
    /\ stdout' = "error"
    /\ loopPc' = after_except
    /\ lastError' = ""
    /\ QueryReset
    /\ UNCHANGED << argv, mainPc, ResourceVars, spawned, requests, line,
                    nQueries, failed >>

(***************************************************************************)
(* process_query.                                                          *)
(***************************************************************************)
User(msg) == [role |-> "user", text |-> msg]
Model == [role |-> "model", text |-> << >>]

Outer == << argv, mainPc, ResourceVars, spawned, requests, loopPc, line,
            nQueries, stdout >>

\* a list_tools failure that is swallowed: the query goes on with the
\* catalog at hand and sends the prompt
PQ_ListFails_swallow ==
    /\ pqPc = "await_list"
    /\ lastError' = ListToolsError
    /\ history' = << User(enhanced_query(strip(line), tool_descriptions)) >>
    /\ final_text' = << >>
    /\ pqPc' = "await_initial"
    /\ outstanding' = "llm"
    /\ nLLM' = nLLM + 1
    /\ UNCHANGED << Outer, follow_up, failed, delivered, tools, available_tools,
                    tool_descriptions, parts, idx, nListTools, nToolReturned,
                    nCallTool, result >>

\* line 56: list_tools raises; nothing in process_query catches it
PQ_ListFails ==
    /\ pqPc = "await_list"
    /\ pqPc' = "raised"
    /\ outstanding' = "none"
    /\ lastError' = ListToolsError
    /\ failed' = TRUE
    /\ UNCHANGED << Outer, follow_up, delivered, tools, available_tools, tool_descriptions,
                    history, parts, idx, final_text, nListTools, nToolReturned, nCallTool,
                    nLLM, result >>

\* lines 56-94: the tools arrive and the loop body raises at one of them
\* (line 64 on malformed text, line 93 on a parameter that is no mapping)
PQ_DiscoverRaises ==
    /\ pqPc = "await_list"
    /\ \E ts \in ToolLists :
        LET k == FirstFailing(ts) IN
        /\ k # 0
        /\ delivered' = ts
        /\ tools' = [i \in 1..Len(ts) |->
                        IF i < k \/ (i = k /\ ~ParseFails(ts[k]))
                        THEN ToolAfter(ts[i]) ELSE ts[i]]
        /\ available_tools' =
              [i \in 1..(IF ParseFails(ts[k]) THEN k - 1 ELSE k) |-> Declaration(ts[i])]
        /\ tool_descriptions' =
              AllDescriptionLines(SubSeq(ts, 1, k - 1)) \o
              (IF ParseFails(ts[k]) THEN << >> ELSE LinesBeforeFailure(ts[k]))
        /\ lastError' = IF ParseFails(ts[k]) THEN ParseError ELSE AttributeError
    /\ pqPc' = "raised"
    /\ outstanding' = "none"
    /\ failed' = TRUE
    /\ UNCHANGED << Outer, follow_up, history, parts,
                    idx, final_text, nListTools, nToolReturned, nCallTool, nLLM, result >>

\* a chat that goes on from the messages of the chat before
start_chat_resumed(prior) == history

\* line 120: model.start_chat(history=prior), the messages the new chat holds
start_chat(prior) == prior

\* lines 56-127: the tools arrive, declarations and description lines are
\* built, the prompt is composed and sent to a new chat
PQ_Discover ==
    /\ pqPc = "await_list"
    /\ \E ts \in ToolLists :
        /\ FirstFailing(ts) = 0
        /\ delivered' = ts
        /\ tools' = [i \in 1..Len(ts) |-> ToolAfter(ts[i])]
        /\ available_tools' = [i \in 1..Len(ts) |-> Declaration(ts[i])]
        /\ tool_descriptions' = AllDescriptionLines(ts)
        /\ history' = Append(start_chat(<< >>),
                             User(enhanced_query(strip(line), AllDescriptionLines(ts))))
    /\ final_text' = << >>
    /\ pqPc' = "await_initial"
    /\ outstanding' = "llm"
    /\ nLLM' = nLLM + 1
    /\ UNCHANGED << Outer, follow_up, failed, parts, idx, nListTools, nToolReturned, nCallTool, result,
                    lastError >>

\* lines 157-162: an exception e raised inside the try block
Except(e) ==
    /\ final_text' = except_clause(final_text, e)
    /\ result' = Join(except_clause(final_text, e))
    /\ lastError' = e
    /\ pqPc' = "returned"
    /\ outstanding' = "none"
    /\ failed' = TRUE

\* lines 132-143 and 162: the for loop goes on from Part i of ps with the
\* transcript ft, up to the next call_tool or to the return
Resume(ps, i, ft) ==
    LET j == NextCall(ps, i)
        ft2 == ft \o WalkText(ps, i, j - 1)
    IN  /\ idx' = j
        /\ final_text' = ft2
        /\ IF j <= Len(ps)
           THEN /\ pqPc' = "await_tool"
                /\ outstanding' = "call_tool"
                /\ nCallTool' = nCallTool + 1
                /\ result' = result
           ELSE /\ pqPc' = "returned"
                /\ outstanding' = "none"
                /\ nCallTool' = nCallTool
                /\ result' = Join(ft2)

\* line 127 raises
PQ_InitialFails ==
    /\ pqPc = "await_initial"
    /\ Except(LLMError)
    /\ UNCHANGED << Outer, follow_up, delivered, tools, available_tools, tool_descriptions,
                    history, parts, idx, nListTools, nToolReturned, nCallTool, nLLM >>

\* lines 127-130: the initial turn has no Parts
PQ_InitialEmpty ==
    /\ pqPc = "await_initial"
    /\ history' = Append(history, Model)
    /\ result' = NoResponse
    /\ pqPc' = "returned"
    /\ outstanding' = "none"
    /\ UNCHANGED << Outer, follow_up, failed, delivered, tools, available_tools,
                    tool_descriptions, parts, idx, final_text, nListTools, nToolReturned,
                    nCallTool, nLLM, lastError >>

\* lines 127-143: the initial turn has Parts; the for loop starts
PQ_InitialParts ==
    /\ pqPc = "await_initial"
    /\ \E turn \in TurnsUpTo(MaxParts) :
        /\ turn # << >>
        /\ parts' = turn
        /\ Resume(turn, 1, final_text)
    /\ history' = Append(history, Model)
    /\ UNCHANGED << Outer, follow_up, failed, delivered, tools, available_tools,
                    tool_descriptions, nListTools, nToolReturned, nLLM, lastError >>

\* line 143 raises
PQ_ToolFails ==
    /\ pqPc = "await_tool"
    /\ Except(ToolError)
    /\ UNCHANGED << Outer, follow_up, delivered, tools, available_tools, tool_descriptions,
                    history, parts, idx, nListTools, nToolReturned, nCallTool, nLLM >>

\* a tool return that goes on with the next Part and sends no follow-up
PQ_ToolReturns_no_follow_up ==
    /\ pqPc = "await_tool"
    /\ \E payload \in Payloads :
        Resume(parts, idx + 1,
               final_text \o << << "[Calling tool ", parts[idx].name, " with args ",
                                   parts[idx].args, "]" >>,
                                << "[Tool result: ", payload, "]" >> >>)
    /\ nToolReturned' = nToolReturned + 1
    /\ UNCHANGED << Outer, follow_up, failed, delivered, tools, available_tools,
                    tool_descriptions, history, parts, nListTools, nLLM, lastError >>

\* lines 143-152: the tool call returns; the two notices are appended and the
\* follow-up message is sent
PQ_ToolReturns ==
    /\ pqPc = "await_tool"
    /\ \E payload \in Payloads :
        /\ final_text' = final_text \o
                         ToolLines(parts[idx].name, parts[idx].args, payload)
        /\ history' = Append(history, User(human_readable(parts[idx].name, payload)))
    /\ pqPc' = "await_followup"
    /\ outstanding' = "llm"
    /\ nLLM' = nLLM + 1
    /\ nToolReturned' = nToolReturned + 1
    /\ UNCHANGED << Outer, follow_up, failed, delivered, tools, available_tools,
                    tool_descriptions, parts, idx, nListTools, nCallTool,
                    result, lastError >>

\* line 152 raises
PQ_FollowUpFails ==
    /\ pqPc = "await_followup"
    /\ Except(LLMError)
    /\ UNCHANGED << Outer, follow_up, delivered, tools, available_tools, tool_descriptions,
                    history, parts, idx, nListTools, nToolReturned, nCallTool, nLLM >>

\* lines 152-155, then the for loop goes on with the next Part
PQ_FollowUpReturns ==
    /\ pqPc = "await_followup"
    /\ \E turn \in FollowUpTurns :
        /\ follow_up' = turn
        /\ Resume(parts, idx + 1, final_text \o FollowUpLines(turn))
    /\ history' = Append(history, Model)
    /\ UNCHANGED << Outer, failed, delivered, tools, available_tools,
                    tool_descriptions, parts, nListTools, nToolReturned, nLLM, lastError >>

Next ==
    \/ MainUsage
    \/ MainCreate
    \/ ConnectReject
    \/ ConnectSpawn
    \/ TransportFails
    \/ TransportOpens
    \/ SessionFails
    \/ SessionOpens
    \/ InitializeFails
    \/ InitializeReturns
    \/ ConnectListFails
    \/ ConnectReturns
    \/ Cleanup
    \/ ReadQuit
    \/ ReadQuery
    \/ ReadError
    \/ ReadInterrupt
    \/ ChatPrint
    \/ ChatCatch
    \/ PQ_ListFails
    \/ PQ_DiscoverRaises
    \/ PQ_Discover
    \/ PQ_InitialFails
    \/ PQ_InitialEmpty
    \/ PQ_InitialParts
    \/ PQ_ToolFails
    \/ PQ_ToolReturns
    \/ PQ_FollowUpFails
    \/ PQ_FollowUpReturns

Spec == Init /\ [][Next]_vars

(***************************************************************************)
(* Properties.                                                             *)
(***************************************************************************)
InQuery == mainPc = "chat" /\ loopPc = "in_query"

\* the number of Parts among ps[1..n] that are function calls
CallParts(ps, n) ==
    Cardinality({ i \in 1..n : i <= Len(ps) /\ ps[i].kind = "function_call" })

\* C1 (as stated): in one run of process_query at most one call-tool request
\* is sent, whatever Parts the initial turn holds.
C1_AtMostOneToolCall == nCallTool <= 1

\* C1 (amended): the call-tool requests sent in one run of process_query are
\* one for each FunctionCallPart of the initial turn that the loop has
\* reached, so at most as many as the initial turn holds FunctionCallParts
\* (all of them when the query ends without an error); none is sent for a
\* Part of a follow-up turn.
C1_OneToolCallPerInitialCallPart ==
    /\ nCallTool = CallParts(parts, idx)
    /\ nCallTool <= CallParts(parts, Len(parts))
    /\ (pqPc = "returned" /\ ~failed) => nCallTool = CallParts(parts, Len(parts))

C1_Witness ==
    /\ pqPc = "returned" /\ ~failed
    /\ nCallTool = 2
    /\ Len(parts) = 2

\* C2 (as stated): no error raised while a query is processed escapes
\* process_query; whatever step fails, process_query returns a transcript
\* that contains the error's message.
C2_NoErrorEscapes ==
    (InQuery /\ failed) => (pqPc = "returned" /\ Contains(result, lastError))

\* C2 (amended): an error raised by the initial LLM message, by a tool call
\* or by a follow-up LLM message does not escape process_query, which returns
\* a transcript containing the error's message; an error raised by the
\* list-tools call or while the catalog is built (parsing a text schema blob)
\* is raised before the try block and escapes process_query with no LLM
\* message sent.
C2_ErrorsCaughtInsideTryOnly ==
    (InQuery /\ failed) =>
        \/ /\ lastError \in { LLMError, ToolError }
           /\ pqPc = "returned"
           /\ Contains(result, lastError)
        \/ /\ lastError \in { ListToolsError, ParseError, AttributeError }
           /\ pqPc = "raised"
           /\ nLLM = 0
           /\ result = << >>

C2_Witness ==
    /\ InQuery /\ failed
    /\ pqPc = "returned"
    /\ lastError = ToolError
    /\ Contains(result, ToolError)

\* C3: when the initial LLM message, a tool call or a follow-up LLM message
\* raises, the transcript returned is the lines emitted before the failure,
\* in their order, followed by the error notice with the error message and
\* then the trace.
C3_PartialTranscriptKept ==
    [][ (pqPc \in { "await_initial", "await_tool", "await_followup" } /\ failed' /\ ~failed)
        => /\ pqPc' = "returned"
           /\ Len(final_text') = Len(final_text) + 2
           /\ SubSeq(final_text', 1, Len(final_text)) = final_text
           /\ final_text'[Len(final_text) + 1] =
                  << "Error in processing with Gemini: ", lastError' >>
           /\ Contains(final_text'[Len(final_text) + 2], "Traceback (most recent call last):\n")
           /\ Contains(final_text'[Len(final_text) + 2], lastError')
           /\ result' = Join(final_text') ]_vars

C3_Witness ==
    /\ pqPc = "returned" /\ failed
    /\ lastError = LLMError
    /\ nLLM = 2
    /\ Len(final_text) = 5
    /\ final_text[1] = << "Let me check" >>

\* C4: when the initial turn has no Parts, process_query returns exactly
\* "No response from Gemini", with no call-tool request and no further LLM
\* message sent.
C4_EmptyTurn ==
    (pqPc = "returned" /\ ~failed /\ parts = << >>) =>
        /\ result = << "No response from Gemini" >>
        /\ nCallTool = 0
        /\ nLLM = 1
        /\ outstanding = "none"

C4_Witness ==
    /\ pqPc = "returned" /\ ~failed /\ parts = << >>
    /\ result = << "No response from Gemini" >>

\* the Parts ps[1..n] are all text
AllText(ps, n) == \A i \in 1..n : ps[i].kind = "text"

\* the non-empty texts of ps[1..n], in order
RECURSIVE TextsOf(_, _)
TextsOf(ps, n) ==
    IF n = 0 THEN << >>
    ELSE TextsOf(ps, n - 1) \o (IF ps[n].text # << >> THEN << ps[n].text >> ELSE << >>)

\* an initial turn made of TextParts followed by one FunctionCallPart
TextsThenCall(ps) ==
    /\ ps # << >>
    /\ ps[Len(ps)].kind = "function_call"
    /\ AllText(ps, Len(ps) - 1)

\* C5: for an initial turn of TextParts followed by a FunctionCallPart whose
\* tool call and follow-up both succeed, the transcript is, in this order, the
\* texts, the invocation notice with the name and args, the result notice with
\* the payload, the signature line, and the first Part of the follow-up turn
\* when it is text.
C5_TranscriptOrder ==
    (pqPc = "returned" /\ ~failed /\ TextsThenCall(parts)) =>
        \E payload \in Payloads :
            /\ final_text =
                  TextsOf(parts, Len(parts) - 1) \o
                  << << "[Calling tool ", parts[Len(parts)].name, " with args ",
                        parts[Len(parts)].args, "]" >>,
                     << "[Tool result: ", payload, "]" >>,
                     << "this is Ujjwal's weather agent :)" >> >> \o
                  (IF follow_up # << >> /\ follow_up[1].kind = "text"
                   THEN << follow_up[1].text >> ELSE << >>)
            /\ result = Join(final_text)

C5_Witness ==
    /\ pqPc = "returned" /\ ~failed
    /\ Len(parts) = 2 /\ TextsThenCall(parts)
    /\ Len(final_text) = 5
    /\ final_text[1] = << "Let me check" >>
    /\ final_text[5] = << "It is 301 K" >>

\* C6: after a query whose processing failed (inside process_query or by an
\* error escaping it) chat_loop does not end: its next step is back at the
\* prompt, where the next line typed is read and processed.
C6_LoopSurvivesFailure ==
    [][ /\ (InQuery /\ failed /\ pqPc \in { "returned", "raised" })
            => (mainPc' = "chat" /\ loopPc' = "prompt" /\ failed')
        /\ (mainPc = "chat" /\ loopPc = "prompt" /\ failed /\ line' \in QueryLines /\ line' # line)
            => (mainPc' = "chat" /\ loopPc' = "in_query" /\ pqPc' = "await_list"
                /\ nQueries' = nQueries + 1) ]_vars

C6_Witness ==
    /\ mainPc = "chat" /\ loopPc = "prompt"
    /\ failed
    /\ nQueries = 1
    /\ stdout = "response"

\* C7: when main has ended after creating the client, whatever the path,
\* every resource acquired has been released exactly once, the session before
\* the transport, and none is still held; nothing is released earlier.
C7_ReleasedInReverse ==
    /\ mainPc = "done" =>
        /\ held = { }
        /\ exit_stack = << >>
        /\ \/ acquired = << >> /\ released = << >>
           \/ acquired = << "transport" >> /\ released = << "transport" >>
           \/ acquired = << "transport", "session" >>
              /\ released = << "session", "transport" >>
    /\ mainPc # "done" => (released = << >> /\ held = Range(acquired))

C7_Witness ==
    /\ mainPc = "done"
    /\ loopPc = "interrupted"
    /\ released = << "session", "transport" >>

\* C8: connect_to_server with a script path that ends in neither ".py" nor
\* ".js" fails with the input error before anything is spawned: no transport,
\* no session, no initialize and no list-tools request.
C8_BadExtensionFailsFast ==
    (Len(argv) >= 2 /\
     argv[2] \in { << "s", ".", "t", "x", "t" >>, << "s", ".", "p", "y", "c" >>,
                   << "p", "y" >>, << >> }) =>
        /\ spawned = "none"
        /\ acquired = << >>
        /\ requests = << >>
        /\ mainPc \in { "start", "connect", "finally", "done" }
        /\ mainPc \in { "finally", "done" } =>
               lastError = "Server script must be a .py or .js file"

C8_Witness ==
    /\ mainPc = "done"
    /\ Len(argv) = 2 /\ argv[2] = << "s", ".", "t", "x", "t" >>
    /\ lastError = ValueError
    /\ spawned = "none"

\* C9: chat_loop returns only when the line read, trimmed and lower-cased,
\* is "quit"; the line is read at the prompt, between queries, and no query
\* is processed for it; every other line starts a query and every other
\* outcome of an iteration leads back to the prompt.  (An interrupt of
\* input() ends the process and is not an outcome of an iteration.)
C9_QuitOnly ==
    [][ /\ (loopPc = "prompt" /\ loopPc' \in { "returned", "in_query" }) =>
            /\ (loopPc' = "returned") <=> (line' \in QuitLines)
            /\ (loopPc' = "in_query") <=> (line' \in QueryLines)
            /\ loopPc' = "returned" =>
                   (pqPc' = "idle" /\ nQueries' = nQueries /\ outstanding' = "none")
        /\ (loopPc' = "returned" /\ loopPc # "returned") => loopPc = "prompt"
        /\ loopPc \in { "prompt", "in_query" } =>
               loopPc' \in { "prompt", "in_query", "returned", "interrupted" } ]_vars

C9_Witness ==
    /\ loopPc = "returned"
    /\ line = << " ", "Q", "u", "I", "t", " " >>
    /\ nQueries = 1

\* the parameters a tool declares: the "properties" map of its inputSchema
\* as the server delivered it
DeclaredParams(tool) ==
    LET schema == LoadSchema(tool)
    IN  IF schema.kind = "dict" /\ HasKey(schema, "properties")
        THEN Get(schema, "properties").items
        ELSE << >>

RECURSIVE TotalParams(_)
TotalParams(ts) ==
    IF ts = << >> THEN 0 ELSE Len(DeclaredParams(Head(ts))) + TotalParams(Tail(ts))

RECURSIVE ExpectedLines(_)
ExpectedLines(ts) ==
    IF ts = << >> THEN << >>
    ELSE << << "- ", Head(ts).name, ": ", Head(ts).description >> >> \o
         [i \in 1..Len(DeclaredParams(Head(ts))) |->
             << "  - Parameter '", DeclaredParams(Head(ts))[i].key, "': " >> \o
             (IF HasKey(DeclaredParams(Head(ts))[i].value, "description")
              THEN << Get(DeclaredParams(Head(ts))[i].value, "description").val >>
              ELSE << >>)] \o
         ExpectedLines(Tail(ts))

\* C10: for N tools discovered, process_query builds N declarations and, for
\* each tool in order, a header line followed by one Parameter line for each
\* parameter its inputSchema declares, in the map's order: N plus the total
\* number of declared parameters lines, whatever the parameters are named.
C10_OneLinePerDeclaredParameter ==
    (pqPc \in { "await_initial", "await_tool", "await_followup", "returned" }) =>
        /\ Len(available_tools) = Len(delivered)
        /\ Len(tool_descriptions) = Len(delivered) + TotalParams(delivered)
        /\ tool_descriptions = ExpectedLines(delivered)

\* NoTitle(v): no mapping in v, at any depth, has the key "title"
RECURSIVE NoTitle(_)
NoTitle(v) ==
    /\ v.kind = "dict" => ~\E i \in 1..Len(v.items) : v.items[i].key = "title"
    /\ \A i \in 1..Len(v.items) : NoTitle(v.items[i].value)

\* SameButTitles(a, b): b is a with the "title" entries of its mappings
\* taken out and everything else in place
RECURSIVE SameButTitles(_, _)
SameButTitles(a, b) ==
    /\ b.kind = a.kind
    /\ b.val = a.val
    /\ LET kept == IF a.kind = "dict"
                   THEN SelectSeq(a.items, LAMBDA kv : kv.key # "title")
                   ELSE a.items
       IN  /\ Len(b.items) = Len(kept)
           /\ \A i \in 1..Len(kept) :
                /\ b.items[i].key = kept[i].key
                /\ SameButTitles(kept[i].value, b.items[i].value)

\* C11: clean_schema is a pure transform: the structure passed to it (the
\* tool's inputSchema as discovery delivered it, and every mapping in it) is
\* the same after the call as before.
C11_InputSchemaUnchanged == tools = delivered

\* C12: the value clean_schema returns holds no mapping with a key "title",
\* at any depth and also inside sequences, and is otherwise the input: every
\* other key, value and element in place, scalars unchanged.
C12_NoTitleLeft ==
    \A i \in 1..Len(available_tools) :
        /\ NoTitle(available_tools[i].parameters)
        /\ SameButTitles(LoadSchema(delivered[i]), available_tools[i].parameters)

C12_Witness ==
    /\ pqPc = "await_initial"
    /\ Len(available_tools) = 5
    /\ delivered[2].inputSchema = SchemaAlerts
    /\ delivered[4].inputSchema = SchemaList
    /\ available_tools[5].parameters = Scalar("null")
    /\ available_tools[2].parameters # SchemaAlerts

\* C13: clean_schema is idempotent: cleaning a cleaned schema changes nothing.
C13_Idempotent ==
    \A i \in 1..Len(available_tools) :
        clean_schema(available_tools[i].parameters) = available_tools[i].parameters

C13_Witness ==
    /\ pqPc = "await_initial"
    /\ Len(available_tools) = 5
    /\ delivered[1].inputSchema = SchemaWeather
    /\ available_tools[1].parameters # SchemaWeather

\* the invocation notice of the Part the loop is at
NoticeAtIdx ==
    << "[Calling tool ", parts[idx].name, " with args ", parts[idx].args, "]" >>

\* C14: the invocation notice of a function call is in the transcript before
\* its call-tool request is sent: while the request is in flight the
\* transcript ends with the notice, and when the tool call fails the
\* transcript returned holds the notice right before the error notice.
C14_NoticeBeforeRequest ==
    /\ pqPc = "await_tool" =>
          (final_text # << >> /\ final_text[Len(final_text)] = NoticeAtIdx)
    /\ (pqPc = "returned" /\ failed /\ lastError = ToolError) =>
          (Len(final_text) >= 3 /\ final_text[Len(final_text) - 2] = NoticeAtIdx)

\* C15: within a query one remote request is outstanding at a time: a
\* call-tool request is in flight only for a function-call Part of a turn
\* already received, while every earlier tool call has returned and its
\* follow-up has been answered; each tool call that returned was followed by
\* one follow-up message, so the LLM messages sent are one plus the tool
\* calls that returned.
C15_OneRequestAtATime ==
    /\ (outstanding = "list_tools") <=> (pqPc = "await_list")
    /\ (outstanding = "llm") <=> (pqPc \in { "await_initial", "await_followup" })
    /\ (outstanding = "call_tool") <=> (pqPc = "await_tool")
    /\ pqPc = "await_tool" =>
          /\ idx \in 1..Len(parts) /\ parts[idx].kind = "function_call"
          /\ nCallTool = nToolReturned + 1
    /\ pqPc # "await_tool" =>
          (nCallTool = nToolReturned \/
           (nCallTool = nToolReturned + 1 /\ failed /\ lastError = ToolError))
    /\ nLLM = 0 => (nCallTool = 0 /\ pqPc \in { "idle", "await_list", "raised" })
    /\ nLLM >= 1 => nLLM = 1 + nToolReturned

C15_Witness ==
    /\ pqPc = "await_followup"
    /\ nToolReturned = 2
    /\ nLLM = 3

\* the non-empty texts of ps[i..j], in order
RECURSIVE TextsIn(_, _, _)
TextsIn(ps, i, j) ==
    IF i > j THEN << >>
    ELSE (IF ps[i].kind = "text" /\ ps[i].text # << >> THEN << ps[i].text >> ELSE << >>)
         \o TextsIn(ps, i + 1, j)

\* C16: a follow-up turn never causes a tool dispatch: when it arrives the
\* transcript gains the signature line and the turn's first Part when that is
\* text, nothing for its later Parts; the loop then goes on with the initial
\* turn, and a call-tool request is sent only for the next function-call Part
\* of the initial turn.
C16_FollowUpNeverDispatches ==
    [][ (pqPc = "await_followup" /\ pqPc' # "await_followup" /\ ~failed') =>
           LET first == IF follow_up' # << >> /\ follow_up'[1].kind = "text"
                        THEN << follow_up'[1].text >> ELSE << >>
               last == IF idx' <= Len(parts) THEN idx' - 1 ELSE Len(parts)
           IN  /\ parts' = parts
               /\ idx' > idx
               /\ final_text' =
                     final_text \o << << "this is Ujjwal's weather agent :)" >> >> \o
                     first \o TextsIn(parts, idx + 1, last)
               /\ \A i \in (idx + 1)..last : parts[i].kind = "text"
               /\ \/ /\ nCallTool' = nCallTool
                     /\ pqPc' = "returned" /\ idx' = Len(parts) + 1
                  \/ /\ nCallTool' = nCallTool + 1
                     /\ pqPc' = "await_tool"
                     /\ idx' <= Len(parts) /\ parts[idx'].kind = "function_call" ]_vars

C16_Witness ==
    /\ pqPc = "returned" /\ ~failed
    /\ nCallTool = 1
    /\ Len(follow_up) = 2
    /\ follow_up[1].kind = "text" /\ follow_up[2].kind = "function_call"
    /\ final_text[Len(final_text)] = << "It is 301 K" >>

\* C17 (as stated): every TextPart processed adds exactly one line carrying
\* its string, the empty string included: as many lines as TextParts.
C17_OneEventPerTextPart ==
    (pqPc = "returned" /\ ~failed /\ parts # << >> /\ AllText(parts, Len(parts))) =>
        /\ Len(final_text) = Len(parts)
        /\ \A i \in 1..Len(parts) : final_text[i] = parts[i].text

\* C17 (amended): every TextPart processed whose string is not empty adds
\* exactly one line carrying its string, in Part order; a TextPart whose
\* string is empty adds none: as many lines as non-empty TextParts.
C17_OneEventPerNonEmptyTextPart ==
    /\ (pqPc = "returned" /\ ~failed /\ nCallTool = 0 /\ parts # << >>) =>
          final_text = TextsIn(parts, 1, Len(parts))
    /\ (pqPc = "await_tool" /\ nCallTool = 1) =>
          final_text = TextsIn(parts, 1, idx - 1)
    /\ (pqPc = "returned" /\ failed /\ lastError = ToolError /\ nCallTool = 1) =>
          SubSeq(final_text, 1, Len(final_text) - 2) = TextsIn(parts, 1, idx - 1)

C17_Witness ==
    /\ pqPc = "returned" /\ ~failed
    /\ Len(parts) = 2
    /\ parts[1].text = << "Let me check" >> /\ parts[1].kind = "text"
    /\ parts[2].text = << >> /\ parts[2].kind = "text"
    /\ final_text = << << "Let me check" >> >>

\* the chat holds what this query put into it: its prompt first, then the
\* model's turns and the readable result of every tool call that returned
IsOwnHistory ==
    /\ history # << >>
    /\ history[1] = User(enhanced_query(strip(line), tool_descriptions))
    /\ Len(SelectSeq(history, LAMBDA m : m.role = "user")) = nLLM
    /\ \A i \in 2..Len(history) :
          \/ history[i] = Model
          \/ \E j \in 1..(IF idx <= Len(parts) THEN idx ELSE Len(parts)), p \in Payloads :
                /\ parts[j].kind = "function_call"
                /\ history[i] = User(human_readable(parts[j].name, p))

\* C18: every process_query call starts its exchange in a new chat with no
\* prior messages and with an empty transcript: when the prompt is sent the
\* chat holds that prompt alone, whatever the chat of the query before held,
\* and the transcript is empty; from then on the chat holds only messages of
\* this query.
C18_FreshChatPerQuery ==
    /\ pqPc = "await_initial" =>
          /\ history = << User(enhanced_query(strip(line), tool_descriptions)) >>
          /\ final_text = << >>
    /\ pqPc \in { "await_initial", "await_tool", "await_followup", "returned" } =>
          IsOwnHistory

\* the second query has sent its prompt after the first one returned a
\* transcript, so a chat with messages was there when it began
C18_Witness ==
    /\ nQueries = 2 /\ stdout = "response"
    /\ pqPc = "await_initial"
    /\ line = << " ", "q", " ", "u", "i", "t" >>
    /\ Len(history) = 1
    /\ tool_descriptions # << >>

\* C19: every process_query call sends one list-tools request, before any
\* LLM message of the query; the declarations and description lines the
\* prompt is built from are those of the tools this request delivered, not
\* the catalog of the query before; when the list-tools request fails the
\* error leaves process_query with no LLM message and no call-tool request
\* sent.
C19_OneListToolsPerQuery ==
    /\ InQuery => nListTools = 1
    /\ pqPc = "await_list" => (nLLM = 0 /\ nCallTool = 0)
    /\ lastError = ListToolsError /\ mainPc = "chat" =>
          (pqPc = "raised" /\ nLLM = 0 /\ nCallTool = 0)
    /\ nLLM >= 1 =>
          /\ delivered \in ToolLists
          /\ FirstFailing(delivered) = 0
          /\ available_tools = [i \in 1..Len(delivered) |-> Declaration(delivered[i])]
          /\ tool_descriptions = AllDescriptionLines(delivered)
          /\ history[1] = User(enhanced_query(strip(line), AllDescriptionLines(delivered)))

\* the second query's list-tools request failed while the catalog of the
\* first query was at hand
C19_Witness ==
    /\ nQueries = 2
    /\ pqPc = "raised" /\ lastError = ListToolsError
    /\ available_tools # << >>
    /\ nListTools = 1 /\ nLLM = 0

\* C20: a list-tools or call-tool request is in flight only while the
\* session is open, after the initialize handshake and before cleanup has
\* released anything; chat_loop runs only after connect_to_server sent its
\* two requests and returned; once main is in its finally clause no request
\* is outstanding.
C20_RequestsWhileSessionOpen ==
    /\ (outstanding \in { "list_tools", "call_tool" } \/ mainPc = "await_tools") =>
          /\ "session" \in held /\ "transport" \in held
          /\ released = << >>
          /\ exit_stack = << "transport", "session" >>
          /\ requests = << "initialize", "list_tools" >>
          /\ mainPc \in { "await_tools", "chat" }
    /\ (mainPc = "chat" \/ loopPc # "not_started") =>
          /\ requests = << "initialize", "list_tools" >>
          /\ acquired = << "transport", "session" >>
    /\ mainPc = "chat" => (held = { "transport", "session" } /\ released = << >>)
    /\ mainPc \in { "finally", "done", "exited" } =>
          (outstanding = "none" /\ pqPc = "idle")

C20_Witness ==
    /\ mainPc = "chat" /\ pqPc = "await_tool"
    /\ outstanding = "call_tool"
    /\ nQueries = 2
    /\ "session" \in held

====
